---------------------------- MODULE Spec2Model ----------------------------
(***************************************************************************)
(* A model of price_apis.py: the provider registry (get_api_cls), the      *)
(* construction of a price adapter (PriceAPI.__init__ and the subclasses'  *)
(* __init__) and the fetch_price_data method of the four adapters          *)
(* CoinMarketCap, CoinGecko, FinnHub and AlphaVantage.                     *)
(*                                                                         *)
(* Conventions.                                                            *)
(*  - A Python str that the code splits, joins or slices is a sequence of  *)
(*    tokens, a comma being a token of its own: "A,A" is <<"A", ",", "A">>  *)
(*    and "BTC" is <<"BTC">>.  A str that is only compared or copied is   *)
(*    a TLA+ string.                                                      *)
(*  - A JSON number is an integer counting ten-thousandths: 110.0 is       *)
(*    1100000 and 2.345 is 23450.  Formatting rounds it as Python does.    *)
(*  - An HTTP response is [valid |-> BOOLEAN, body |-> the decoded JSON].  *)
(*    A JSON object is a function on its keys, except the objects the      *)
(*    code iterates over, which are sequences of <<key, value>> pairs in   *)
(*    document order.                                                      *)
(*  - An uncaught Python exception ends the call: pc = "raised" and exc    *)
(*    names the exception class.                                           *)
(***************************************************************************)
EXTENDS Integers, Sequences, FiniteSets, TLC

VARIABLES
    env,         \* os.environ restricted to the three API-key variables
    pc,          \* position of the caller/adapter
    api_name,    \* argument of get_api_cls ("" when the class is named directly)
    cls,         \* the adapter class in use ("" before one is chosen)
    self,        \* the adapter instance's attributes
    i,           \* index of the next item of the running for-loop
    requests,    \* every requests.get issued so far, in order
    responses,   \* the response received for each request, in order
    price_data,  \* the local list price_data of fetch_price_data
    ret,         \* "pending", or what fetch_price_data returned: "list" / "None"
    exc          \* "" or the class of the exception that left the call

vars == <<env, pc, api_name, cls, self, i, requests, responses, price_data, ret, exc>>

---------------------------------------------------------------------------
(* Bounds of the model *)

\* longest symbols/stocks string handed to a constructor (both together)
MaxScopeLen == 1
\* most entries in a provider's symbol-keyed JSON object
MaxEntries == 2

---------------------------------------------------------------------------
(* Strings and numbers *)

Scale == 100 * 100

EmptyDict == <<>>

Has(d, k) == k \in DOMAIN d

RECURSIVE SeqsUpTo(_, _)
SeqsUpTo(S, n) ==
    IF n = 0 THEN {<<>>}
    ELSE LET shorter == SeqsUpTo(S, n - 1)
         IN  shorter \cup {Append(s, c) : s \in {t \in shorter : Len(t) = n - 1}, c \in S}

\* str.split(','): the pieces between commas; never empty ("" gives [""])
RECURSIVE SplitFrom(_, _, _)
SplitFrom(s, k, cur) ==
    IF k > Len(s) THEN <<cur>>
    ELSE IF s[k] = "," THEN <<cur>> \o SplitFrom(s, k + 1, <<>>)
    ELSE SplitFrom(s, k + 1, Append(cur, s[k]))

Split(s) == SplitFrom(s, 1, <<>>)

\* ','.join(list of str)
RECURSIVE Join(_)
Join(parts) ==
    IF Len(parts) = 0 THEN <<>>
    ELSE IF Len(parts) = 1 THEN parts[1]
    ELSE parts[1] \o <<",">> \o Join(Tail(parts))

Digit(d) ==
    CASE d = 0 -> "0" [] d = 1 -> "1" [] d = 2 -> "2" [] d = 3 -> "3" [] d = 4 -> "4"
      [] d = 5 -> "5" [] d = 6 -> "6" [] d = 7 -> "7" [] d = 8 -> "8" [] d = 9 -> "9"

DigitVal(c) ==
    CASE c = "0" -> 0 [] c = "1" -> 1 [] c = "2" -> 2 [] c = "3" -> 3 [] c = "4" -> 4
      [] c = "5" -> 5 [] c = "6" -> 6 [] c = "7" -> 7 [] c = "8" -> 8 [] c = "9" -> 9

RECURSIVE NatStr(_)
NatStr(n) == IF n < 10 THEN Digit(n) ELSE NatStr(n \div 10) \o Digit(n % 10)

\* the ',' option of the format mini-language: groups of three digits
RECURSIVE Grouped(_)
Grouped(n) ==
    IF n < 1000 THEN NatStr(n)
    ELSE Grouped(n \div 1000) \o "," \o Digit((n \div 100) % 10)
                              \o Digit((n \div 10) % 10) \o Digit(n % 10)

\* num/den (num >= 0, den > 0) rounded to an integer, ties to even
RoundHalfEven(num, den) ==
    LET q == num \div den
        r == num % den
    IN  IF 2 * r < den THEN q
        ELSE IF 2 * r > den THEN q + 1
        ELSE IF q % 2 = 0 THEN q ELSE q + 1

Abs(n) == IF n < 0 THEN -n ELSE n

\* f"${x:,.2f}" for x = v / Scale, v >= 0
FormatPrice(v) ==
    LET cents == RoundHalfEven(v, Scale \div 100)
    IN  "$" \o Grouped(cents \div 100) \o "." \o Digit((cents \div 10) % 10) \o Digit(cents % 10)

\* f"{x:.1f}%" for x = num / den, den > 0; a negative x keeps its sign even
\* when it rounds to zero ("-0.0%")
FormatPct(num, den) ==
    LET tenths == RoundHalfEven(10 * Abs(num), den)
    IN  (IF num < 0 THEN "-" ELSE "") \o NatStr(tenths \div 10) \o "." \o Digit(tenths % 10) \o "%"

\* float(s) for a decimal literal s of digits with at most one '.', as a
\* count of ten-thousandths (at most four fractional digits)
RECURSIVE DigitsVal(_, _)
DigitsVal(s, acc) == IF Len(s) = 0 THEN acc ELSE DigitsVal(Tail(s), 10 * acc + DigitVal(s[1]))

RECURSIVE Pow10(_)
Pow10(n) == IF n = 0 THEN 1 ELSE 10 * Pow10(n - 1)

float(s) ==
    LET dots == {k \in 1..Len(s) : s[k] = "."}
        dot == IF dots = {} THEN Len(s) + 1 ELSE CHOOSE k \in dots : TRUE
        whole == SubSeq(s, 1, dot - 1)
        frac == SubSeq(s, dot + 1, Len(s))
    IN  DigitsVal(whole, 0) * Scale + DigitsVal(frac, 0) * Pow10(4 - Len(frac))

---------------------------------------------------------------------------
(* The registry and the adapters' constructors *)

Classes == {"CoinMarketCap", "CoinGecko", "FinnHub", "AlphaVantage"}

\* names a caller may hand to get_api_cls
ProviderNames == {"coinmarketcap", "coingecko", "alphavantage", "finnhub", "kraken"}

EnvVars == {"CMC_API_KEY", "FINNHUB_API_KEY", "ALPHA_VANTAGE_API_KEY"}

\* the environments considered: every key set, one key missing, no key set
Envs == {[v \in EnvVars \ missing |-> "secret"] :
            missing \in {{}, EnvVars} \cup {{v} : v \in EnvVars}}

Currencies == {"usd", "eur"}

Alphabet == {"A", ","}

\* the (symbols, stocks) pairs handed to a constructor
Scopes == {p \in SeqsUpTo(Alphabet, MaxScopeLen) \X SeqsUpTo(Alphabet, MaxScopeLen) :
              Len(p[1]) + Len(p[2]) <= MaxScopeLen}

API_CLASS_MAP_finnhub ==
    [n \in {"coinmarketcap", "coingecko", "alphavantage", "finnhub"} |->
        CASE n = "coinmarketcap" -> "CoinMarketCap"
          [] n = "coingecko" -> "CoinGecko"
          [] n = "alphavantage" -> "AlphaVantage"
          [] n = "finnhub" -> "FinnHub"]

API_CLASS_MAP ==
    [n \in {"coinmarketcap", "coingecko", "alphavantage"} |->
        CASE n = "coinmarketcap" -> "CoinMarketCap"
          [] n = "coingecko" -> "CoinGecko"
          [] n = "alphavantage" -> "AlphaVantage"]

supported_currencies(c) == {"usd"}

\* the environment variable each class reads its key from
KeyVar(c) ==
    CASE c = "CoinMarketCap" -> "CMC_API_KEY"
      [] c = "CoinGecko" -> "FINNHUB_API_KEY"
      [] c = "FinnHub" -> "FINNHUB_API_KEY"
      [] c = "AlphaVantage" -> "ALPHA_VANTAGE_API_KEY"

\* CoinGecko.__init__'s table, in insertion order: <<coin id, symbol>>
symbol_map_from_symbols(symbols) ==
    IF "A" \in {symbols[k] : k \in 1..Len(symbols)}
    THEN << <<<<"bitcoin">>, <<"BTC">>>>, <<<<"ethereum">>, <<"ETH">>>> >>
    ELSE << <<<<"bitcoin">>, <<"BTC">>>> >>

CoinGecko_symbol_map(symbols) == << <<<<"bitcoin">>, <<"BTC">>>>, <<<<"ethereum">>, <<"ETH">>>> >>

\* validate_currency: "" or the exception raised
validate_currency(c, currency) ==
    IF currency \notin supported_currencies(c) THEN "ValueError" ELSE ""

\* the requests a class's __init__ issues: none (the coin-list request of
\* CoinGecko.__init__ is commented out)
init_requests_coin_list(c) ==
    IF c = "CoinGecko"
    THEN <<[url |-> "coingecko/coins/list", q |-> <<>>, key |-> "", vs |-> ""]>>
    ELSE <<>>

init_requests(c) == <<>>

\* c(symbols, currency, stocks) under environment e:
\* [exc |-> "" or the exception, self |-> the instance's attributes,
\*  requests |-> the requests issued while constructing]
Construct(c, e, symbols, currency, stocks) ==
    IF validate_currency(c, currency) # ""
    THEN [exc |-> validate_currency(c, currency), self |-> EmptyDict, requests |-> <<>>]
    ELSE IF ~Has(e, KeyVar(c))
    THEN [exc |-> "RuntimeError", self |-> EmptyDict, requests |-> init_requests(c)]
    ELSE [exc |-> "",
          self |-> IF c = "CoinGecko"
                   THEN [symbols |-> symbols, stocks |-> stocks, currency |-> currency,
                         symbol_map |-> CoinGecko_symbol_map(symbols),
                         api_key |-> e[KeyVar(c)]]
                   ELSE [symbols |-> symbols, stocks |-> stocks, currency |-> currency,
                         api_key |-> e[KeyVar(c)]],
          requests |-> init_requests(c)]

---------------------------------------------------------------------------
(* fetch_price_data.  A frame is the state of one call; every operator     *)
(* below maps the instance, the frame and the response(s) received to the  *)
(* frame after one step of the method.                                     *)

Frame ==
    [pc |-> pc, i |-> i, requests |-> requests, responses |-> responses,
     price_data |-> price_data, ret |-> ret, exc |-> exc]

\* the frame of a call that has not started, on a fresh instance
NewFrame ==
    [pc |-> "constructed", i |-> 0, requests |-> <<>>, responses |-> <<>>,
     price_data |-> <<>>, ret |-> "pending", exc |-> ""]

\* requests.get(url, params=..., headers=...): q is the symbol/ids parameter,
\* key the API key sent, vs the vs_currencies parameter
Req(url, q, key, vs) == [url |-> url, q |-> q, key |-> key, vs |-> vs]

Sent(f, req, resp) ==
    [f EXCEPT !.requests = Append(@, req), !.responses = Append(@, resp)]

Raise(f, x) == [f EXCEPT !.pc = "raised", !.exc = x]

\* return price_data ("list") or a bare return ("None")
Return(f, kind) == [f EXCEPT !.pc = "done", !.ret = kind]

Rec(symbol, price, change_24h) ==
    [symbol |-> symbol, price |-> price, change_24h |-> change_24h]

\* dict lookup in an insertion-ordered table of <<key, value>> pairs
Keys(table) == [k \in 1..Len(table) |-> table[k][1]]

InTable(table, key) == \E k \in 1..Len(table) : table[k][1] = key

Lookup(table, key) == table[CHOOSE k \in 1..Len(table) : table[k][1] = key][2]

(* ---- CoinMarketCap ---- *)

CMC_complete(data) ==
    /\ Has(data, "quote")
    /\ Has(data["quote"], "USD")
    /\ Has(data["quote"]["USD"], "price")
    /\ Has(data["quote"]["USD"], "percent_change_24h")

\* a loop that stops at the first incomplete entry (break for continue)
RECURSIVE CMC_records_break(_)
CMC_records_break(items) ==
    IF Len(items) = 0 \/ ~CMC_complete(items[1][2]) THEN <<>>
    ELSE <<Rec(items[1][1],
               FormatPrice(items[1][2]["quote"]["USD"]["price"]),
               FormatPct(items[1][2]["quote"]["USD"]["percent_change_24h"], Scale))>>
         \o CMC_records_break(Tail(items))

\* the for loop over response.json()['data'].items()
RECURSIVE CMC_records(_)
CMC_records(items) ==
    IF Len(items) = 0 THEN <<>>
    ELSE LET symbol == items[1][1]
             data == items[1][2]
         IN  IF CMC_complete(data)
             THEN <<Rec(symbol,
                        FormatPrice(data["quote"]["USD"]["price"]),
                        FormatPct(data["quote"]["USD"]["percent_change_24h"], Scale))>>
                  \o CMC_records(Tail(items))
             ELSE CMC_records(Tail(items))

CMC_fetch(s, f, resp) ==
    LET f1 == Sent(f, Req("coinmarketcap/v1/cryptocurrency/quotes/latest",
                          s.symbols, s.api_key, ""), resp)
        items == IF Has(resp.body, "data") THEN resp.body["data"] ELSE <<>>
    IN  IF ~resp.valid THEN Return(f1, "None")
        ELSE Return([f1 EXCEPT !.price_data = CMC_records(items)], "list")

(* ---- the FinnHub quote loop of CoinGecko and of FinnHub ---- *)

\* the try block of one ticker: [exc |-> "" or the exception, recs |-> the
\* records appended]
quote_record(stock, body) ==
    IF ~Has(body, "c") \/ ~Has(body, "o") THEN [exc |-> "", recs |-> <<>>]
    ELSE IF body["o"] = 0 THEN [exc |-> "ZeroDivisionError", recs |-> <<>>]
    ELSE [exc |-> "",
          recs |-> <<Rec(stock, FormatPrice(body["c"]),
                         FormatPct(100 * (body["c"] - body["o"]), body["o"]))>>]

\* what follows an iteration of a for loop over n items: the next item, or
\* the code after the loop
NextItem(f, n, after) ==
    IF f.i + 1 < n THEN [f EXCEPT !.i = @ + 1]
    ELSE IF after = "return" THEN Return([f EXCEPT !.i = @ + 1], "list")
    ELSE [f EXCEPT !.pc = after, !.i = 0]

\* one iteration of "for stock in self.stocks.split(',')"
quote_step(s, f, resp, after) ==
    LET stocks == Split(s.stocks)
        stock == stocks[f.i + 1]
        f1 == Sent([f EXCEPT !.pc = "stocks"],
                   Req("finnhub/quote", stock, s.api_key, ""), resp)
        r == quote_record(stock, resp.body)
    IN  IF ~resp.valid THEN Raise(f1, "JSONDecodeError")
        ELSE IF r.exc # "" THEN Raise(f1, r.exc)
        ELSE NextItem([f1 EXCEPT !.price_data = @ \o r.recs], Len(stocks), after)

FH_stock(s, f, resp) == quote_step(s, f, resp, "return")

(* ---- CoinGecko ---- *)

\* the for loop over CG_response.items(): [exc, recs]
RECURSIVE CG_records(_, _)
CG_records(symbol_map, items) ==
    IF Len(items) = 0 THEN [exc |-> "", recs |-> <<>>]
    ELSE LET coin_id == items[1][1]
             data == items[1][2]
             rest == CG_records(symbol_map, Tail(items))
         IN  IF ~Has(data, "usd") \/ ~Has(data, "usd_24h_change") THEN rest
             ELSE IF ~InTable(symbol_map, coin_id) THEN [exc |-> "KeyError", recs |-> <<>>]
             ELSE [exc |-> rest.exc,
                   recs |-> <<Rec(Lookup(symbol_map, coin_id),
                                  FormatPrice(data["usd"]),
                                  FormatPct(data["usd_24h_change"], Scale))>> \o rest.recs]

\* the CoinGecko request and the loop over its response
CG_crypto(s, f, resp) ==
    LET f1 == Sent(f, Req("coingecko/simple/price", Join(Keys(s.symbol_map)),
                          "", s.currency), resp)
        r == CG_records(s.symbol_map, resp.body)
    IN  IF ~resp.valid THEN Raise(f1, "JSONDecodeError")
        ELSE IF r.exc # "" THEN Raise(f1, r.exc)
        ELSE [f1 EXCEPT !.price_data = r.recs, !.pc = "stocks", !.i = 0]

\* a ticker's record put at the head of the list (insert(0, ...) for append)
CG_stock_prepending(s, f, resp) ==
    LET stocks == Split(s.stocks)
        stock == stocks[f.i + 1]
        f1 == Sent([f EXCEPT !.pc = "stocks"],
                   Req("finnhub/quote", stock, s.api_key, ""), resp)
        r == quote_record(stock, resp.body)
    IN  IF ~resp.valid THEN Raise(f1, "JSONDecodeError")
        ELSE IF r.exc # "" THEN Raise(f1, r.exc)
        ELSE NextItem([f1 EXCEPT !.price_data = r.recs \o @], Len(stocks), "return")

CG_stock(s, f, resp) == quote_step(s, f, resp, "return")

(* ---- AlphaVantage ---- *)

\* a timestamp "YYYY-MM-DD HH:MM:SS" is <<date, time>>; ts[:10] is its date
Slice10(ts) == ts[1]

\* f"{date} 09:30:00"
At0930(date) == <<date, "09:30:00">>

\* response['Time Series (30min)'].get(f"{last_refreshed[:10]} 09:30:00", {})
\*                                .get('1. open', price_recent)
AV_price_open_first_bar(series, last_refreshed, price_recent) ==
    LET firsts == {t \in DOMAIN series : t[2] = "09:30:00"}
    IN  IF firsts # {} /\ Has(series[CHOOSE t \in firsts : TRUE], "1. open")
        THEN series[CHOOSE t \in firsts : TRUE]["1. open"]
        ELSE price_recent

AV_price_open(series, last_refreshed, price_recent) ==
    LET key == At0930(Slice10(last_refreshed))
        bar == IF Has(series, key) THEN series[key] ELSE EmptyDict
    IN  IF Has(bar, "1. open") THEN bar["1. open"] ELSE price_recent

\* change_24h = f"{100*((float(price_recent)/float(price_open))-1):.1f}%" and
\* the record: [exc, recs]
AV_record(symbol, price_recent, price_open) ==
    IF float(price_open) = 0 THEN [exc |-> "ZeroDivisionError", recs |-> <<>>]
    ELSE [exc |-> "",
          recs |-> <<Rec(symbol, FormatPrice(float(price_recent)),
                         FormatPct(100 * (float(price_recent) - float(price_open)),
                                   float(price_open)))>>]

\* the try block of one stock ticker
AV_stock_record(stock, body) ==
    IF ~Has(body, "Meta Data") \/ ~Has(body["Meta Data"], "3. Last Refreshed")
    THEN [exc |-> "", recs |-> <<>>]
    ELSE LET last_refreshed == body["Meta Data"]["3. Last Refreshed"]
         IN  IF \/ ~Has(body, "Time Series (30min)")
                \/ ~Has(body["Time Series (30min)"], last_refreshed)
                \/ ~Has(body["Time Series (30min)"][last_refreshed], "1. open")
             THEN [exc |-> "", recs |-> <<>>]
             ELSE LET series == body["Time Series (30min)"]
                      price_recent == series[last_refreshed]["1. open"]
                  IN  AV_record(stock, price_recent,
                                AV_price_open(series, last_refreshed, price_recent))

\* one iteration of "for stock in self.stocks.split(',')"
AV_stock(s, f, resp) ==
    LET stocks == Split(s.stocks)
        stock == stocks[f.i + 1]
        f1 == Sent([f EXCEPT !.pc = "stocks"],
                   Req("alphavantage/TIME_SERIES_INTRADAY", stock, s.api_key, ""), resp)
        r == AV_stock_record(stock, resp.body)
    IN  IF ~resp.valid THEN Raise(f1, "JSONDecodeError")
        ELSE IF r.exc # "" THEN Raise(f1, r.exc)
        ELSE NextItem([f1 EXCEPT !.price_data = @ \o r.recs], Len(stocks), "symbols")

\* the try block of one crypto symbol
AV_symbol_record(symbol, current, daily) ==
    IF ~Has(daily, "Meta Data") \/ ~Has(daily["Meta Data"], "6. Last Refreshed")
    THEN [exc |-> "", recs |-> <<>>]
    ELSE LET last_refreshed == Slice10(daily["Meta Data"]["6. Last Refreshed"])
         IN  IF \/ ~Has(current, "Realtime Currency Exchange Rate")
                \/ ~Has(current["Realtime Currency Exchange Rate"], "5. Exchange Rate")
                \/ ~Has(daily, "Time Series (Digital Currency Daily)")
                \/ ~Has(daily["Time Series (Digital Currency Daily)"], last_refreshed)
                \/ ~Has(daily["Time Series (Digital Currency Daily)"][last_refreshed],
                        "1a. open (USD)")
             THEN [exc |-> "", recs |-> <<>>]
             ELSE AV_record(symbol,
                      current["Realtime Currency Exchange Rate"]["5. Exchange Rate"],
                      daily["Time Series (Digital Currency Daily)"][last_refreshed]
                           ["1a. open (USD)"])

\* the two requests of a symbol issued in the other order
AV_symbol_daily_first(s, f, resp_current, resp_daily) ==
    LET symbols == Split(s.symbols)
        symbol == symbols[f.i + 1]
        f1 == Sent(f, Req("alphavantage/DIGITAL_CURRENCY_DAILY", symbol, s.api_key, ""),
                   resp_daily)
        f2 == Sent(f1, Req("alphavantage/CURRENCY_EXCHANGE_RATE", symbol, s.api_key, ""),
                   resp_current)
        r == AV_symbol_record(symbol, resp_current.body, resp_daily.body)
    IN  IF ~resp_daily.valid THEN Raise(f1, "JSONDecodeError")
        ELSE IF ~resp_current.valid THEN Raise(f2, "JSONDecodeError")
        ELSE IF r.exc # "" THEN Raise(f2, r.exc)
        ELSE NextItem([f2 EXCEPT !.price_data = @ \o r.recs], Len(symbols), "return")

\* one iteration of "for symbol in self.symbols.split(',')": two requests, the
\* second issued only once the first response has been decoded
AV_symbol(s, f, resp_current, resp_daily) ==
    LET symbols == Split(s.symbols)
        symbol == symbols[f.i + 1]
        f1 == Sent(f, Req("alphavantage/CURRENCY_EXCHANGE_RATE", symbol, s.api_key, ""),
                   resp_current)
        f2 == Sent(f1, Req("alphavantage/DIGITAL_CURRENCY_DAILY", symbol, s.api_key, ""),
                   resp_daily)
        r == AV_symbol_record(symbol, resp_current.body, resp_daily.body)
    IN  IF ~resp_current.valid THEN Raise(f1, "JSONDecodeError")
        ELSE IF ~resp_daily.valid THEN Raise(f2, "JSONDecodeError")
        ELSE IF r.exc # "" THEN Raise(f2, r.exc)
        ELSE NextItem([f2 EXCEPT !.price_data = @ \o r.recs], Len(symbols), "return")

---------------------------------------------------------------------------
(* The responses the providers may send *)

NonJSON == [valid |-> FALSE, body |-> EmptyDict]

Json(body) == [valid |-> TRUE, body |-> body]

\* the restriction of a JSON object to some of its keys
Only(d, ks) == [k \in ks |-> d[k]]

\* the JSON objects of at most n members with distinct keys from ks and
\* values from vs, as sequences of <<key, value>> in document order
OrderedDicts(ks, vs, n) ==
    {d \in SeqsUpTo(ks \X vs, n) :
        \A a, b \in 1..Len(d) : a # b => d[a][1] # d[b][1]}

Price(whole, frac) == whole * Scale + frac

CMCSymbols == {<<"A">>, <<"B">>, <<"C">>}

CMCUsd == {[price |-> Price(50000, 1234), percent_change_24h |-> Price(2, 3450)],
           [price |-> Price(1000, 500), percent_change_24h |-> -Price(1, 2600)]}

CMCEntries ==
    {[quote |-> [USD |-> u]] : u \in CMCUsd}
    \cup {[quote |-> [USD |-> Only(u, ks)]] :
             u \in {[price |-> Price(50000, 1234), percent_change_24h |-> Price(2, 3450)]},
             ks \in {{"price"}, {"percent_change_24h"}}}
    \cup {[quote |-> EmptyDict], EmptyDict}

CMCResponses ==
    {NonJSON, Json(EmptyDict)}
    \cup {Json([data |-> d]) : d \in OrderedDicts(CMCSymbols, CMCEntries, MaxEntries)}

CoinIds == {<<"bitcoin">>, <<"ethereum">>, <<"dogecoin">>}

CGFull == [usd |-> Price(50000, 1234), usd_24h_change |-> Price(2, 3450)]

CGEntries == {CGFull, Only(CGFull, {"usd"}), Only(CGFull, {"usd_24h_change"})}

CGResponses ==
    {NonJSON} \cup {Json(d) : d \in OrderedDicts(CoinIds, CGEntries, MaxEntries)}

\* FinnHub answers an unknown ticker with zeros
QuoteFull == {[c |-> Price(110, 0), o |-> Price(100, 0)],
              [c |-> Price(100, 0), o |-> Price(110, 0)],
              [c |-> 0, o |-> 0]}

QuoteResponses ==
    {NonJSON}
    \cup {Json(q) : q \in QuoteFull}
    \cup {Json(Only([c |-> Price(110, 0), o |-> Price(100, 0)], ks)) :
             ks \in {{}, {"c"}, {"o"}}}

Day == "2021-01-04"

TsLast == <<Day, "16:00:00">>

TsFirst == At0930(Day)

Bar(price) == [k \in {"1. open"} |-> price]

AVMeta(key, ts) == [k \in {key} |-> ts]

AVStockBody(meta, series) ==
    [k \in {"Meta Data", "Time Series (30min)"} |->
        IF k = "Meta Data" THEN meta ELSE series]

AVStockSeries ==
    {EmptyDict,
     [t \in {TsLast} |-> Bar(<<"1", "1", "0", ".", "5">>)],
     [t \in {TsLast} |-> EmptyDict],
     [t \in {TsLast} |-> Bar(<<"0", ".", "0">>)],
     [t \in {TsLast, TsFirst} |->
        IF t = TsLast THEN Bar(<<"1", "1", "0", ".", "5">>)
        ELSE Bar(<<"1", "0", "0", ".", "0">>)],
     [t \in {TsLast, TsFirst} |->
        IF t = TsLast THEN Bar(<<"1", "1", "0", ".", "5">>) ELSE EmptyDict],
     [t \in {TsLast, At0930("2021-01-05")} |->
        IF t = TsLast THEN Bar(<<"1", "1", "0", ".", "5">>)
        ELSE Bar(<<"1", "0", "0", ".", "0">>)]}

AVStockResponses ==
    {NonJSON, Json(EmptyDict),
     Json(Only(AVStockBody(AVMeta("3. Last Refreshed", TsLast), EmptyDict), {"Meta Data"})),
     Json(AVStockBody(EmptyDict, [t \in {TsLast} |-> Bar(<<"1", "1", "0", ".", "5">>)]))}
    \cup {Json(AVStockBody(AVMeta("3. Last Refreshed", TsLast), series)) :
             series \in AVStockSeries}
    \cup {Json(AVStockBody(AVMeta("3. Last Refreshed", TsFirst),
                           [t \in {TsFirst} |-> Bar(<<"1", "0", "0", ".", "0">>)]))}

AVCurrentResponses ==
    {NonJSON,
     Json([k \in {"Realtime Currency Exchange Rate"} |-> EmptyDict]),
     Json([k \in {"Realtime Currency Exchange Rate"} |->
             [j \in {"5. Exchange Rate"} |-> <<"1", "1", "0", ".", "5">>]])}

AVDailyBody(meta, series) ==
    [k \in {"Meta Data", "Time Series (Digital Currency Daily)"} |->
        IF k = "Meta Data" THEN meta ELSE series]

DailyBar(price) == [k \in {"1a. open (USD)"} |-> price]

AVDailyResponses ==
    {NonJSON, Json(EmptyDict),
     Json(Only(AVDailyBody(AVMeta("6. Last Refreshed", <<Day, "00:00:00">>), EmptyDict),
               {"Meta Data"}))}
    \cup {Json(AVDailyBody(AVMeta("6. Last Refreshed", <<Day, "00:00:00">>), series)) :
             series \in {[d \in {Day} |-> EmptyDict],
                         [d \in {Day} |-> DailyBar(<<"1", "0", "0", ".", "0">>)],
                         [d \in {Day} |-> DailyBar(<<"0">>)]}}

---------------------------------------------------------------------------
(* The state machine: a caller picks a class, constructs it, fetches once *)

Init ==
    /\ env \in Envs
    /\ pc = "start"
    /\ api_name = ""
    /\ cls = ""
    /\ self = EmptyDict
    /\ i = 0
    /\ requests = <<>>
    /\ responses = <<>>
    /\ price_data = <<>>
    /\ ret = "pending"
    /\ exc = ""

\* get_api_cls(name)
get_api_cls(name) ==
    /\ pc = "start"
    /\ api_name' = name
    /\ IF name \notin DOMAIN API_CLASS_MAP
       THEN /\ pc' = "raised"
            /\ exc' = "RuntimeError"
            /\ cls' = cls
       ELSE /\ pc' = "resolved"
            /\ cls' = API_CLASS_MAP[name]
            /\ exc' = exc
    /\ UNCHANGED <<env, self, i, requests, responses, price_data, ret>>

\* the caller names directly an adapter class the registry does not reach
UseClass(c) ==
    /\ pc = "start"
    /\ c \notin {API_CLASS_MAP[n] : n \in DOMAIN API_CLASS_MAP}
    /\ pc' = "resolved"
    /\ cls' = c
    /\ UNCHANGED <<env, api_name, self, i, requests, responses, price_data, ret, exc>>

\* cls(symbols, currency, stocks)
New(symbols, currency, stocks) ==
    /\ pc = "resolved"
    /\ LET r == Construct(cls, env, symbols, currency, stocks)
       IN  /\ self' = r.self
           /\ exc' = r.exc
           /\ requests' = requests \o r.requests
           /\ pc' = IF r.exc = "" THEN "constructed" ELSE "raised"
    /\ UNCHANGED <<env, api_name, cls, i, responses, price_data, ret>>


Become(f) ==
    /\ pc' = f.pc
    /\ i' = f.i
    /\ requests' = f.requests
    /\ responses' = f.responses
    /\ price_data' = f.price_data
    /\ ret' = f.ret
    /\ exc' = f.exc
    /\ UNCHANGED <<env, api_name, cls, self>>

\* CoinMarketCap.fetch_price_data
fetch_CMC ==
    /\ pc = "constructed" /\ cls = "CoinMarketCap"
    /\ \E resp \in CMCResponses : Become(CMC_fetch(self, Frame, resp))

\* CoinGecko.fetch_price_data up to the end of the CoinGecko loop
fetch_CG_crypto ==
    /\ pc = "constructed" /\ cls = "CoinGecko"
    /\ \E resp \in CGResponses : Become(CG_crypto(self, Frame, resp))

\* CoinGecko.fetch_price_data: one ticker of the FinnHub loop
fetch_CG_stock ==
    /\ pc = "stocks" /\ cls = "CoinGecko"
    /\ \E resp \in QuoteResponses : Become(CG_stock(self, Frame, resp))

\* FinnHub.fetch_price_data: one ticker
fetch_FH_stock ==
    /\ pc \in {"constructed", "stocks"} /\ cls = "FinnHub"
    /\ \E resp \in QuoteResponses : Become(FH_stock(self, Frame, resp))

\* AlphaVantage.fetch_price_data: one ticker of the stock loop
fetch_AV_stock ==
    /\ pc \in {"constructed", "stocks"} /\ cls = "AlphaVantage"
    /\ \E resp \in AVStockResponses : Become(AV_stock(self, Frame, resp))

\* AlphaVantage.fetch_price_data: one symbol of the crypto loop
fetch_AV_symbol ==
    /\ pc = "symbols" /\ cls = "AlphaVantage"
    /\ \E resp_current \in AVCurrentResponses, resp_daily \in AVDailyResponses :
          Become(AV_symbol(self, Frame, resp_current, resp_daily))

Next ==
    \/ \E name \in ProviderNames : get_api_cls(name)
    \/ \E c \in Classes : UseClass(c)
    \/ \E scope \in Scopes, currency \in Currencies : New(scope[1], currency, scope[2])
    \/ fetch_CMC
    \/ fetch_CG_crypto
    \/ fetch_CG_stock
    \/ fetch_FH_stock
    \/ fetch_AV_stock
    \/ fetch_AV_symbol

Spec == Init /\ [][Next]_vars

---------------------------------------------------------------------------
(* Properties *)

\* C1: get_api_cls returns the bound class for exactly 'coinmarketcap',
\* 'coingecko' and 'alphavantage'; every other name (also 'finnhub') makes it
\* raise RuntimeError; no request has been issued when it returns or raises.
C1_RegistryResolution ==
    api_name # "" =>
        /\ api_name = "coinmarketcap" => cls = "CoinMarketCap"
        /\ api_name = "coingecko" => cls = "CoinGecko"
        /\ api_name = "alphavantage" => cls = "AlphaVantage"
        /\ api_name \notin {"coinmarketcap", "coingecko", "alphavantage"} =>
              pc = "raised" /\ exc = "RuntimeError" /\ cls = ""
        /\ (pc = "resolved" \/ cls = "") => requests = <<>>

C1_Witness ==
    api_name = "finnhub" /\ pc = "raised" /\ exc = "RuntimeError" /\ requests = <<>>

C2_KeyOf ==
    [c \in Classes |->
        CASE c = "CoinMarketCap" -> "CMC_API_KEY"
          [] c = "CoinGecko" -> "FINNHUB_API_KEY"
          [] c = "FinnHub" -> "FINNHUB_API_KEY"
          [] c = "AlphaVantage" -> "ALPHA_VANTAGE_API_KEY"]

C2_ConstructionFailed == pc = "raised" /\ cls # "" /\ self = EmptyDict

\* C2: a construction that fails, with ValueError for a currency outside
\* supported_currencies or with RuntimeError for a missing API-key variable,
\* has issued no request, and neither has one that succeeds; an instance
\* exists only with a supported currency and its class's key present.
C2_ConstructionBeforeNetwork ==
    /\ C2_ConstructionFailed =>
          /\ requests = <<>>
          /\ exc \in {"ValueError", "RuntimeError"}
          /\ exc = "RuntimeError" => C2_KeyOf[cls] \notin DOMAIN env
    /\ pc = "constructed" => requests = <<>>
    /\ self # EmptyDict =>
          /\ self.currency = "usd"
          /\ C2_KeyOf[cls] \in DOMAIN env
          /\ self.api_key = env[C2_KeyOf[cls]]

C2_Witness ==
    /\ C2_ConstructionFailed /\ cls = "CoinGecko" /\ exc = "ValueError"
    /\ "FINNHUB_API_KEY" \notin DOMAIN env
    /\ requests = <<>>

C4_HasBoth(entry) ==
    /\ "quote" \in DOMAIN entry
    /\ "USD" \in DOMAIN entry["quote"]
    /\ {"price", "percent_change_24h"} \subseteq DOMAIN entry["quote"]["USD"]

C4_Data == IF "data" \in DOMAIN responses[1].body THEN responses[1].body["data"] ELSE <<>>

C4_ExpectedSymbols ==
    LET Test(item) == C4_HasBoth(item[2])
        kept == SelectSeq(C4_Data, Test)
    IN  [k \in 1..Len(kept) |-> kept[k][1]]

\* C4: given a JSON response, CoinMarketCap.fetch_price_data returns a list
\* with one record per entry of `data` that has quote.USD.price and
\* quote.USD.percent_change_24h, in the order of `data`, and none for the
\* other entries.
C4_CMCRecords ==
    (cls = "CoinMarketCap" /\ pc = "done" /\ responses[1].valid) =>
        /\ ret = "list"
        /\ [k \in 1..Len(price_data) |-> price_data[k].symbol] = C4_ExpectedSymbols

C4_Witness ==
    /\ cls = "CoinMarketCap" /\ pc = "done" /\ responses[1].valid
    /\ Len(C4_Data) = 2
    /\ ~C4_HasBoth(C4_Data[1][2])
    /\ C4_HasBoth(C4_Data[2][2])
    /\ Len(price_data) = 1
    /\ price_data[1].symbol = C4_Data[2][1]

\* C3: a non-JSON body from any provider does not make fetch_price_data
\* raise, and the call returns None or an empty list.
C3_NonJSONNeverRaises ==
    (\E k \in 1..Len(responses) : ~responses[k].valid) =>
        /\ pc # "raised"
        /\ pc = "done" => (ret = "None" \/ price_data = <<>>)

C5_IsQuote(k) == requests[k].url = "finnhub/quote"

C5_HasBoth(k) == {"c", "o"} \subseteq DOMAIN responses[k].body

C5_StockRecords ==
    Cardinality({k \in 1..Len(price_data) :
                    price_data[k].symbol \notin {<<"BTC">>, <<"ETH">>}})

\* C5: in the quote loop of CoinGecko and of FinnHub a JSON quote never makes
\* the call raise, and a ticker gets a record exactly when its quote has both
\* `c` and `o`.
C5_QuoteLoopSkipsWithoutRaising ==
    (/\ cls \in {"CoinGecko", "FinnHub"}
     /\ Len(requests) > 0
     /\ C5_IsQuote(Len(requests))
     /\ \A k \in 1..Len(responses) : responses[k].valid) =>
        /\ pc # "raised"
        /\ C5_StockRecords =
              Cardinality({k \in 1..Len(requests) : C5_IsQuote(k) /\ C5_HasBoth(k)})

C6_FallbackCase(resp) ==
    /\ resp.valid
    /\ "Meta Data" \in DOMAIN resp.body
    /\ "3. Last Refreshed" \in DOMAIN resp.body["Meta Data"]
    /\ "Time Series (30min)" \in DOMAIN resp.body
    /\ LET lr == resp.body["Meta Data"]["3. Last Refreshed"]
           series == resp.body["Time Series (30min)"]
       IN  /\ lr \in DOMAIN series
           /\ "1. open" \in DOMAIN series[lr]
           /\ <<lr[1], "09:30:00">> \notin DOMAIN series

C6_StockStep ==
    /\ cls = "AlphaVantage"
    /\ pc \in {"constructed", "stocks"}
    /\ Len(responses') = Len(responses) + 1

C7_Tickers == Split(self.stocks)

C7_CryptoCount ==
    Cardinality({k \in 1..Len(responses[1].body) :
                    {"usd", "usd_24h_change"} \subseteq DOMAIN responses[1].body[k][2]})

C7_QuotedTickers ==
    LET Quoted(k) == {"c", "o"} \subseteq DOMAIN responses[k + 1].body
        kept == SelectSeq([k \in 1..Len(C7_Tickers) |-> k], Quoted)
    IN  [k \in 1..Len(kept) |-> C7_Tickers[kept[k]]]

C7_Returned == cls = "CoinGecko" /\ pc = "done"

C8_CryptoStepNeverRaises ==
    (cls = "CoinGecko" /\ Len(responses) = 1 /\ responses[1].valid) =>
        /\ pc # "raised"
        /\ \A k \in 1..Len(price_data) : price_data[k].symbol \in {<<"BTC">>, <<"ETH">>}

RECURSIVE C9_PerItem(_, _, _)
C9_PerItem(items, urls, key) ==
    IF Len(items) = 0 THEN <<>>
    ELSE [k \in 1..Len(urls) |-> [url |-> urls[k], q |-> items[1], key |-> key, vs |-> ""]]
         \o C9_PerItem(Tail(items), urls, key)

C9_Expected ==
    CASE cls = "CoinMarketCap" ->
           <<[url |-> "coinmarketcap/v1/cryptocurrency/quotes/latest",
              q |-> self.symbols, key |-> self.api_key, vs |-> ""]>>
      [] cls = "CoinGecko" ->
           <<[url |-> "coingecko/simple/price", q |-> <<"bitcoin", ",", "ethereum">>,
              key |-> "", vs |-> self.currency]>>
           \o C9_PerItem(Split(self.stocks), <<"finnhub/quote">>, self.api_key)
      [] cls = "FinnHub" ->
           C9_PerItem(Split(self.stocks), <<"finnhub/quote">>, self.api_key)
      [] cls = "AlphaVantage" ->
           C9_PerItem(Split(self.stocks), <<"alphavantage/TIME_SERIES_INTRADAY">>,
                      self.api_key)
           \o C9_PerItem(Split(self.symbols),
                         <<"alphavantage/CURRENCY_EXCHANGE_RATE",
                           "alphavantage/DIGITAL_CURRENCY_DAILY">>, self.api_key)

RECURSIVE C10_Replay(_, _, _)
C10_Replay(s, f, rs) ==
    IF Len(rs) = 0 \/ f.pc \in {"done", "raised"} THEN f
    ELSE IF f.pc = "constructed" THEN C10_Replay(s, CG_crypto(s, f, rs[1]), Tail(rs))
    ELSE C10_Replay(s, CG_stock(s, f, rs[1]), Tail(rs))

C10_Other(symbols) == Construct("CoinGecko", env, symbols, self.currency, self.stocks).self

\* C10: what CoinGecko.fetch_price_data requests and returns does not depend
\* on the constructor's symbols: an instance built with other symbols ("" or
\* "A", whatever this one was built with) and given the same responses issues
\* the same requests (the first always for bitcoin,ethereum) and ends with the
\* same records and outcome.
C10_SymbolsIgnored ==
    (cls = "CoinGecko" /\ self # EmptyDict) =>
        /\ \A symbols \in {<<>>, <<"A">>} :
              C10_Replay(C10_Other(symbols), NewFrame, responses) = Frame
        /\ Len(requests) > 0 => requests[1].q = <<"bitcoin", ",", "ethereum">>

C10_Witness ==
    /\ cls = "CoinGecko" /\ pc = "done"
    /\ self.symbols = <<>>
    /\ Len(requests) = 3
    /\ Len(price_data) = 3
    /\ price_data[1].symbol = <<"ETH">>

=============================================================================
